---------------------------- MODULE Spec2Model ----------------------------
(***************************************************************************)
(* LogAnalyzer (src/script.js): the log parsing pipeline                   *)
(*   splitIntoBlocks -> analyzeIPs -> analyzeUserBehavior                  *)
(*                   -> detectSuspiciousBehavior -> determineBreach        *)
(* and the asynchronous analyzeLog handler that drives it from the page.   *)
(*                                                                         *)
(* Text is modelled at the level the regular expressions of the source    *)
(* read it.  A line is a record                                            *)
(*   lead : the characters at the start of the line, up to the first      *)
(*          white space (a sequence of one-character strings),             *)
(*   uid  : the characters captured by /user_id=([^&\s]+)/, <<>> when the  *)
(*          line carries no such token,                                    *)
(*   ts   : <<hh, mm, ss>>, the digit fields of a "YYYY-MM-DD hh:mm:ss"    *)
(*          text found on the line (all sample lines share one date),      *)
(*          <<>> when no timestamp pattern matches.                        *)
(* A line with no text at all is a blank line.  A file content is a        *)
(* sequence of lines (the text between "\n" characters).                   *)
(***************************************************************************)
EXTENDS Integers, Sequences, FiniteSets, TLC

\* ------------------------------------------------------------------ bounds
\* Longest file content, in lines.
MaxLines == 4
\* Largest activity group handed to detectSuspiciousBehavior on its own.
MaxRequests == 4
\* analyzeLog invocations on the one LogAnalyzer instance.
NumCalls == 2

\* ------------------------------------------------------------- characters
Digits == {"0", "1", "2", "3", "4", "5", "6", "7", "8", "9"}

DigitVal(c) ==
    CASE c = "0" -> 0 [] c = "1" -> 1 [] c = "2" -> 2 [] c = "3" -> 3
      [] c = "4" -> 4 [] c = "5" -> 5 [] c = "6" -> 6 [] c = "7" -> 7
      [] c = "8" -> 8 [] c = "9" -> 9

\* String.prototype.startsWith on character sequences.
StartsWith(s, prefix) ==
    /\ Len(s) >= Len(prefix)
    /\ SubSeq(s, 1, Len(prefix)) = prefix

\* The decimal value of a sequence of digits.
RECURSIVE DecimalValue(_)
DecimalValue(s) ==
    IF s = <<>> THEN 0
    ELSE 10 * DecimalValue(SubSeq(s, 1, Len(s) - 1)) + DigitVal(s[Len(s)])

\* ------------------------------------------------------------------ lines
NoText == <<>>

Line(lead, uid, ts) == [lead |-> lead, uid |-> uid, ts |-> ts]

BlankLine == Line(NoText, NoText, NoText)

\* line.trim().length > 0
IsBlank(line) == line.lead = NoText /\ line.uid = NoText /\ line.ts = NoText

\* ------------------------------------------------------- splitIntoBlocks
\* content.split(/\n\s*\n/): a separator is a line break, any run of white
\* space (blank lines included) and a line break, so the pieces are the
\* maximal runs of non-blank lines; trim() and the length filter drop the
\* pieces that hold white space only.
RECURSIVE SplitFrom(_, _, _)
SplitFrom(content, i, current) ==
    IF i > Len(content)
    THEN IF current = <<>> THEN <<>> ELSE <<current>>
    ELSE IF IsBlank(content[i])
         THEN IF current = <<>>
              THEN SplitFrom(content, i + 1, <<>>)
              ELSE <<current>> \o SplitFrom(content, i + 1, <<>>)
         ELSE SplitFrom(content, i + 1, Append(current, content[i]))

splitIntoBlocks(content) == SplitFrom(content, 1, <<>>)

\* ------------------------------------------------------------- analyzeIPs
\* \d{1,3} at position i of s: the number of digits the greedy quantifier
\* takes (0: no digit there).
DigitRun(s, i) ==
    IF i > Len(s) \/ s[i] \notin Digits THEN 0
    ELSE IF i + 1 > Len(s) \/ s[i + 1] \notin Digits THEN 1
    ELSE IF i + 2 > Len(s) \/ s[i + 2] \notin Digits THEN 2
    ELSE 3

\* \d{1,3}\. at position i: the position after the dot, 0 when it does not
\* match.  Taking fewer digits than the greedy run never helps: the next
\* character would be a digit, not the dot.
OctetDot(s, i) ==
    LET r == DigitRun(s, i)
    IN IF i > 0 /\ r > 0 /\ i + r <= Len(s) /\ s[i + r] = "." THEN i + r + 1 ELSE 0

\* firstLine.match(/^(\d{1,3}\.\d{1,3}\.\d{1,3}\.\d{1,3})/): match[1], or
\* NoText when there is no match.
ipPattern(firstLine) ==
    LET s  == firstLine.lead
        p2 == OctetDot(s, 1)
        p3 == OctetDot(s, p2)
        p4 == OctetDot(s, p3)
        r  == IF p4 > 0 THEN DigitRun(s, p4) ELSE 0
    IN IF r > 0 THEN SubSeq(s, 1, p4 + r - 1) ELSE NoText

TenDot == <<"1", "0", ".">>

\* A classifier that takes every RFC 1918 range for internal.
isInternalRFC1918(ip) ==
    \/ StartsWith(ip, TenDot)
    \/ StartsWith(ip, <<"1", "7", "2", ".", "1", "6", ".">>)
    \/ StartsWith(ip, <<"1", "9", "2", ".", "1", "6", "8", ".">>)

\* const isInternal = ip.startsWith('10.')
isInternalIP(ip) == StartsWith(ip, TenDot)

\* A lookup that never finds the address.
FindIPNever(ips, ip) == FALSE

\* ips.find(item => item.ip === ip)
FindIP(ips, ip) == \E k \in 1..Len(ips) : ips[k].ip = ip

\* One block of the forEach: push a record unless the first line carries no
\* address or the address is already recorded.
AnalyzeBlock(ips, block) ==
    LET ip == ipPattern(block[1])
    IN IF ip # NoText /\ ~FindIP(ips, ip)
       THEN Append(ips, [ip |-> ip,
                         isInternal |-> isInternalIP(ip),
                         requests |-> SelectSeq(Tail(block), LAMBDA l : ~IsBlank(l))])
       ELSE ips

RECURSIVE AnalyzeIPsFrom(_, _, _)
AnalyzeIPsFrom(blocks, i, ips) ==
    IF i > Len(blocks) THEN ips
    ELSE AnalyzeIPsFrom(blocks, i + 1, AnalyzeBlock(ips, blocks[i]))

analyzeIPs(blocks) == AnalyzeIPsFrom(blocks, 1, <<>>)

\* ---------------------------------------------------------------- numbers
\* A JavaScript number: an integer number of milliseconds, or NaN.
Num(v) == [nan |-> FALSE, v |-> v]

NaN == [nan |-> TRUE, v |-> 0]

\* a - b
Minus(a, b) == IF a.nan \/ b.nan THEN NaN ELSE Num(a.v - b.v)

\* a + b
Plus(a, b) == IF a.nan \/ b.nan THEN NaN ELSE Num(a.v + b.v)

Abs(x) == IF x < 0 THEN -x ELSE x

\* ------------------------------------------------------- extractTimestamp
\* new Date(match[1]) for the text "YYYY-MM-DD hh:mm:ss": the time value in
\* milliseconds, counted from the midnight of the date the sample lines
\* share; a field out of its range makes the Date invalid (time value NaN).
\* The patterns ask for two digits per field and no more.
DateOf(ts) ==
    IF ts[1] <= 23 /\ ts[2] <= 59 /\ ts[3] <= 59
    THEN Num(((ts[1] * 60 + ts[2]) * 60 + ts[3]) * 1000)
    ELSE NaN

\* The value extractTimestamp returns: null when no pattern matches, else
\* the Date object built from the matched text, valid or not.  The sample
\* lines carry the text of the first two patterns; the slash-date and the
\* bare-time patterns are not exercised.
extractTimestamp(line) ==
    IF line.ts = NoText
    THEN [isNull |-> TRUE, time |-> NaN]
    ELSE [isNull |-> FALSE, time |-> DateOf(line.ts)]

\* ToBoolean(timestamp): null is falsy, every Date object is truthy.
Truthy(timestamp) == ~timestamp.isNull

\* ---------------------------------------------------- analyzeUserBehavior
\* Property names every plain object inherits from Object.prototype (some of
\* them): userRequests = {} finds them through its prototype chain.
ObjectPrototypeKeys ==
    { <<"c", "o", "n", "s", "t", "r", "u", "c", "t", "o", "r">>,
      <<"t", "o", "S", "t", "r", "i", "n", "g">>,
      <<"v", "a", "l", "u", "e", "O", "f">> }

\* userRequests: keys in the order the properties were created, reqs the
\* array under each key; threw: a TypeError left the function.
EmptyUserRequests == [threw |-> FALSE, keys |-> <<>>, reqs |-> <<>>]

KeyIndex(ur, userId) ==
    IF \E k \in 1..Len(ur.keys) : ur.keys[k] = userId
    THEN CHOOSE k \in 1..Len(ur.keys) : ur.keys[k] = userId
    ELSE 0

\* One line of the inner forEach.
GroupLine(ur, line) ==
    LET userId    == line.uid
        timestamp == extractTimestamp(line)
        k         == KeyIndex(ur, userId)
        entry     == [timestamp |-> timestamp.time, request |-> line]
    IN IF ur.threw \/ userId = NoText \/ ~Truthy(timestamp) THEN ur
       ELSE IF k > 0
            THEN [ur EXCEPT !.reqs[k] = Append(@, entry)]
            ELSE IF userId \in ObjectPrototypeKeys
                 \* userRequests[userId] is the inherited member, truthy and
                 \* without push: "push is not a function".
                 THEN [ur EXCEPT !.threw = TRUE]
                 ELSE [ur EXCEPT !.keys = Append(@, userId),
                                 !.reqs = Append(@, <<entry>>)]

\* The lines of all blocks, in the order the nested forEach visits them.
RECURSIVE AllLines(_)
AllLines(blocks) ==
    IF blocks = <<>> THEN <<>> ELSE Head(blocks) \o AllLines(Tail(blocks))

RECURSIVE GroupFrom(_, _, _)
GroupFrom(lines, i, ur) ==
    IF i > Len(lines) THEN ur
    ELSE GroupFrom(lines, i + 1, GroupLine(ur, lines[i]))

groupUserRequests(blocks) == GroupFrom(AllLines(blocks), 1, EmptyUserRequests)

\* ----------------------------------------------- detectSuspiciousBehavior
\* intervals.length > 0 and intervals.length > 1
MinIntervalsNone == 2 - 2
MinIntervalsOne == 2 - 1

\* intervals.length > 2
MinIntervals == 2
\* Math.abs(interval - avgInterval) < 2000
SimilarityWindowMs == 2000
\* similarIntervals / intervals.length > 0.7, as RatioNum / RatioDen
RatioNum == 7
RatioDen == 10
\* avgInterval < 15000
MeanCeilingMs == 15000

\* An array index: a canonical decimal numeral below 2^32 - 1.
IsArrayIndex(key) ==
    /\ key # NoText
    /\ \A k \in 1..Len(key) : key[k] \in Digits
    /\ Len(key) = 1 \/ key[1] # "0"
    /\ Len(key) <= 9

\* Positions of keys, in the order Object.entries lists the own properties
\* of an ordinary object: array indices first, in ascending numeric order,
\* then the other string keys in the order they were created.
RECURSIVE IndexKeysAscending(_, _)
IndexKeysAscending(keys, left) ==
    IF left = {} THEN <<>>
    ELSE LET m == CHOOSE k \in left :
                    \A j \in left : DecimalValue(keys[k]) <= DecimalValue(keys[j])
         IN <<m>> \o IndexKeysAscending(keys, left \ {m})

OwnPropertyOrder(keys) ==
    IndexKeysAscending(keys, {k \in 1..Len(keys) : IsArrayIndex(keys[k])})
      \o SelectSeq([k \in 1..Len(keys) |-> k], LAMBDA k : ~IsArrayIndex(keys[k]))

\* requests.sort((a, b) => a.timestamp - b.timestamp) on valid timestamps:
\* ascending, stable (insertion of each element after its equals).
RECURSIVE InsertByTimestamp(_, _)
InsertByTimestamp(sorted, r) ==
    IF sorted = <<>> THEN <<r>>
    ELSE IF Head(sorted).timestamp.v <= r.timestamp.v
         THEN <<Head(sorted)>> \o InsertByTimestamp(Tail(sorted), r)
         ELSE <<r>> \o sorted

\* The array left as it was filled.
SortByTimestampSkipped(requests) == requests

RECURSIVE SortByTimestamp(_)
SortByTimestamp(requests) ==
    IF requests = <<>> THEN <<>>
    ELSE InsertByTimestamp(SortByTimestamp(SubSeq(requests, 1, Len(requests) - 1)),
                           requests[Len(requests)])

\* The arrays the sort may leave.  With an invalid Date in the array the
\* comparator returns NaN, which the sort reads as 0; such a comparator is
\* not consistent and the order is implementation-defined: any permutation.
SortOutcomes(requests) ==
    IF \A k \in 1..Len(requests) : ~requests[k].timestamp.nan
    THEN {SortByTimestamp(requests)}
    ELSE {[k \in 1..Len(requests) |-> requests[p[k]]] :
             p \in Permutations(1..Len(requests))}

\* intervals[i - 1] = requests[i].timestamp - requests[i - 1].timestamp
Intervals(requests) ==
    [i \in 1..(Len(requests) - 1) |->
        Minus(requests[i + 1].timestamp, requests[i].timestamp)]

\* intervals.reduce((sum, interval) => sum + interval, 0)
RECURSIVE SumOf(_)
SumOf(intervals) ==
    IF intervals = <<>> THEN Num(0)
    ELSE Plus(SumOf(SubSeq(intervals, 1, Len(intervals) - 1)),
              intervals[Len(intervals)])

\* Math.abs(interval - avgInterval) < 2000 with avgInterval = sum / n, both
\* sides multiplied by n; false when either operand is NaN.
IsSimilar(interval, sum, n) ==
    /\ ~interval.nan
    /\ ~sum.nan
    /\ Abs(n * interval.v - sum.v) < SimilarityWindowMs * n

\* Math.round(avgInterval / 1000): the nearest integer, a half rounded up.
RoundSeconds(sum, n) ==
    IF sum.nan THEN NaN ELSE Num((2 * sum.v + 1000 * n) \div (2000 * n))

NormalActivity == <<"Normal activity">>

InsufficientData == <<"Insufficient data">>

RepeatedHits(seconds) == <<"Repeated API hits every ", seconds, "s">>

\* The record pushed for one entry; requests is the array after the sort.
UserRecord(userId, requests) ==
    LET intervals == Intervals(requests)
        n         == Len(intervals)
        sum       == SumOf(intervals)
        similarIntervals ==
            Cardinality({i \in 1..n : IsSimilar(intervals[i], sum, n)})
        isSuspicious ==
            /\ similarIntervals * RatioDen > RatioNum * n
            /\ ~sum.nan
            /\ sum.v < MeanCeilingMs * n
    IN IF Len(requests) < 2
       THEN [userId |-> userId, requestCount |-> Len(requests),
             isSuspicious |-> FALSE, reason |-> NormalActivity]
       ELSE IF n > MinIntervals
            THEN [userId |-> userId, requestCount |-> Len(requests),
                  isSuspicious |-> isSuspicious,
                  reason |-> IF isSuspicious
                             THEN RepeatedHits(RoundSeconds(sum, n).v)
                             ELSE NormalActivity,
                  avgInterval |-> RoundSeconds(sum, n)]
            ELSE [userId |-> userId, requestCount |-> Len(requests),
                  isSuspicious |-> FALSE, reason |-> InsufficientData]

\* The ways the sorts of all groups may come out: one array per key.
SortedGroups(ur) ==
    {s \in [1..Len(ur.keys) -> UNION {SortOutcomes(ur.reqs[k]) : k \in 1..Len(ur.keys)}] :
        \A k \in 1..Len(ur.keys) : s[k] \in SortOutcomes(ur.reqs[k])}

\* users, given the sorted arrays: one record per entry of Object.entries.
detectSuspiciousBehavior(ur, sorted) ==
    LET order == OwnPropertyOrder(ur.keys)
    IN [j \in 1..Len(order) |-> UserRecord(ur.keys[order[j]], sorted[order[j]])]

\* hasExternalIPs && hasSuspiciousUsers
determineBreachBoth(ipAnalysis, userAnalysis) ==
    /\ \E k \in 1..Len(ipAnalysis) : ~ipAnalysis[k].isInternal
    /\ \E k \in 1..Len(userAnalysis) : userAnalysis[k].isSuspicious

\* ---------------------------------------------------------- determineBreach
determineBreach(ipAnalysis, userAnalysis) ==
    LET hasExternalIPs == \E k \in 1..Len(ipAnalysis) : ~ipAnalysis[k].isInternal
        hasSuspiciousUsers == \E k \in 1..Len(userAnalysis) : userAnalysis[k].isSuspicious
    IN hasExternalIPs \/ hasSuspiciousUsers

\* The object parseLogContent returns.
AnalysisOf(blocks, ipAnalysis, userAnalysis) ==
    [ipAnalysis |-> ipAnalysis,
     userAnalysis |-> userAnalysis,
     isBreach |-> determineBreach(ipAnalysis, userAnalysis),
     stats |-> [totalBlocks |-> Len(blocks),
                totalIPs |-> Len(ipAnalysis),
                internalIPs |-> Len(SelectSeq(ipAnalysis, LAMBDA ip : ip.isInternal)),
                externalIPs |-> Len(SelectSeq(ipAnalysis, LAMBDA ip : ~ip.isInternal)),
                suspiciousUsers |-> Len(SelectSeq(userAnalysis, LAMBDA u : u.isSuspicious))]]

\* The results parseLogContent may produce for a content: an analysis, or
\* the TypeError of analyzeUserBehavior.
ParseOutcomes(content) ==
    LET bl == splitIntoBlocks(content)
        ips == analyzeIPs(bl)
        ur == groupUserRequests(bl)
    IN IF ur.threw THEN {[threw |-> TRUE]}
       ELSE {[threw |-> FALSE,
              analysis |-> AnalysisOf(bl, ips, detectSuspiciousBehavior(ur, sorted))] :
                sorted \in SortedGroups(ur)}

\* ------------------------------------------------------------ sample text
IP_10_0_0_1 == <<"1", "0", ".", "0", ".", "0", ".", "1">>
IP_10_0_0_2 == <<"1", "0", ".", "0", ".", "0", ".", "2">>
IP_100_1_1_1 == <<"1", "0", "0", ".", "1", ".", "1", ".", "1">>
IP_172_16_0_1 == <<"1", "7", "2", ".", "1", "6", ".", "0", ".", "1">>
IP_192_168_1_1 == <<"1", "9", "2", ".", "1", "6", "8", ".", "1", ".", "1">>
ThreeOctets == <<"1", "0", ".", "0", ".", "0">>
GET == <<"G", "E", "T">>
Alice == <<"a", "l", "i", "c", "e">>
FortyTwo == <<"4", "2">>
Seven == <<"7">>
ZeroSeven == <<"0", "7">>
ValueOf == <<"v", "a", "l", "u", "e", "O", "f">>

\* "... 10:00:ss", ss seconds after ten o'clock.
At(ss) == <<10, 0, ss>>

\* Lines for the IP classifier: block headers with internal and external
\* addresses, a request line, a header with three octets only.
LinesIP ==
    { BlankLine,
      Line(IP_10_0_0_1, NoText, NoText),
      Line(IP_10_0_0_1, Alice, At(0)),
      Line(IP_100_1_1_1, NoText, NoText),
      Line(IP_172_16_0_1, NoText, NoText),
      Line(IP_192_168_1_1, NoText, NoText),
      Line(ThreeOctets, NoText, NoText),
      Line(GET, Alice, At(5)) }

\* Lines for the user grouping: numeric and other identifiers, a line with
\* no timestamp, a timestamp with 99 seconds, an inherited property name.
LinesUser ==
    { BlankLine,
      Line(GET, Alice, At(0)),
      Line(GET, Alice, At(5)),
      Line(GET, Alice, At(10)),
      Line(GET, Alice, NoText),
      Line(GET, Alice, At(99)),
      Line(GET, FortyTwo, At(0)),
      Line(GET, Seven, At(1)),
      Line(GET, ZeroSeven, At(99)),
      Line(GET, ValueOf, At(0)) }

\* Lines for the verdict: internal and external headers and a user polling
\* every five seconds.
LinesVerdict ==
    { BlankLine,
      Line(IP_10_0_0_1, Alice, At(0)),
      Line(IP_10_0_0_2, NoText, NoText),
      Line(IP_192_168_1_1, NoText, NoText),
      Line(GET, Alice, At(5)),
      Line(GET, Alice, At(10)),
      Line(GET, Alice, At(15)),
      Line(GET, Alice, At(41)) }

\* Seconds of the requests given to the detector on its own.
DetectSeconds == {0, 1, 3, 5, 8, 10, 15, 30, 40, 41, 45}

Contents(lines) == UNION {[1..n -> lines] : n \in 0..MaxLines}

\* ------------------------------------------------------------------ files
SafeContent ==
    << Line(IP_10_0_0_1, NoText, NoText), Line(GET, Alice, At(0)) >>

BreachContent ==
    << Line(IP_192_168_1_1, NoText, NoText), Line(GET, Alice, At(0)),
       BlankLine,
       Line(IP_10_0_0_1, NoText, NoText), Line(GET, FortyTwo, At(5)) >>

ThrowingContent ==
    << Line(IP_10_0_0_2, NoText, NoText), Line(GET, ValueOf, At(0)) >>

\* The files the user may select: name, size in bytes, text.
SampleFiles ==
    << [name |-> "safe.log", size |-> 1536, content |-> SafeContent],
       [name |-> "breach.log", size |-> 2048, content |-> BreachContent],
       [name |-> "odd.log", size |-> 0, content |-> ThrowingContent] >>

NoFile == 0

\* ------------------------------------------------------------------ state
VARIABLES
    \* parseLogContent, one run: its argument, its position, its locals
    content, pc, blocks, ipAnalysis, userRequests, userAnalysis, analysis,
    \* the page: the selected file and the elements the instance holds
    fileInput, fileInfo, analyzeBtnDisabled,
    loadingDiv, resultsDiv, verdictDiv, statsDiv, ipList, userList,
    \* the analyzeLog invocations: position, the file each one took, what it
    \* passed to displayResults, and what it called and wrote so far
    calls

parseVars == <<content, pc, blocks, ipAnalysis, userRequests, userAnalysis, analysis>>

pageVars == <<fileInput, fileInfo, analyzeBtnDisabled,
              loadingDiv, resultsDiv, verdictDiv, statsDiv, ipList, userList>>

vars == <<parseVars, pageVars, calls>>

CallIds == 1..NumCalls

IdleCall ==
    [pc |-> "idle", file |-> NoFile, passed |-> <<>>,
     parseRuns |-> 0, displayRuns |-> 0, errorsShown |-> 0, wrote |-> {}]

\* The page before any event: nothing selected, nothing shown.  Whether the
\* analyze button starts disabled is set by the markup, not by the script.
PageInit ==
    /\ fileInput = NoFile
    /\ fileInfo = <<>>
    /\ analyzeBtnDisabled \in BOOLEAN
    /\ loadingDiv = "none"
    /\ resultsDiv = "none"
    /\ verdictDiv = [className |-> "", html |-> ""]
    /\ statsDiv = <<>>
    /\ ipList = <<>>
    /\ userList = <<>>
    /\ calls = [i \in CallIds |-> IdleCall]

ParseIdle ==
    /\ content = <<>>
    /\ pc = "idle"
    /\ blocks = <<>>
    /\ ipAnalysis = <<>>
    /\ userRequests = EmptyUserRequests
    /\ userAnalysis = <<>>
    /\ analysis = <<>>

PageIdle ==
    /\ PageInit
    /\ analyzeBtnDisabled = TRUE

\* parseLogContent entered with a content of the given lines.
ParseInit(lines) ==
    /\ content \in Contents(lines)
    /\ pc = "start"
    /\ blocks = <<>>
    /\ ipAnalysis = <<>>
    /\ userRequests = EmptyUserRequests
    /\ userAnalysis = <<>>
    /\ analysis = <<>>

\* ------------------------------------------------- parseLogContent, by step
SplitIntoBlocks ==
    /\ pc = "start"
    /\ blocks' = splitIntoBlocks(content)
    /\ pc' = "split"
    /\ UNCHANGED <<content, ipAnalysis, userRequests, userAnalysis, analysis>>
    /\ UNCHANGED <<pageVars, calls>>

AnalyzeIPs ==
    /\ pc = "split"
    /\ ipAnalysis' = analyzeIPs(blocks)
    /\ pc' = "ips"
    /\ UNCHANGED <<content, blocks, userRequests, userAnalysis, analysis>>
    /\ UNCHANGED <<pageVars, calls>>

\* analyzeUserBehavior up to its return statement.
GroupUserRequests ==
    /\ pc = "ips"
    /\ userRequests' = groupUserRequests(blocks)
    /\ pc' = IF userRequests'.threw THEN "threw" ELSE "grouped"
    /\ UNCHANGED <<content, blocks, ipAnalysis, userAnalysis, analysis>>
    /\ UNCHANGED <<pageVars, calls>>

\* return this.detectSuspiciousBehavior(userRequests)
DetectSuspiciousBehavior ==
    /\ pc = "grouped"
    /\ \E sorted \in SortedGroups(userRequests) :
          /\ userAnalysis' = detectSuspiciousBehavior(userRequests, sorted)
          /\ userRequests' = [userRequests EXCEPT !.reqs = sorted]
    /\ pc' = "users"
    /\ UNCHANGED <<content, blocks, ipAnalysis, analysis>>
    /\ UNCHANGED <<pageVars, calls>>

\* determineBreach and the returned object.
ReturnAnalysis ==
    /\ pc = "users"
    /\ analysis' = <<AnalysisOf(blocks, ipAnalysis, userAnalysis)>>
    /\ pc' = "done"
    /\ UNCHANGED <<content, blocks, ipAnalysis, userRequests, userAnalysis>>
    /\ UNCHANGED <<pageVars, calls>>

NextParse ==
    \/ SplitIntoBlocks
    \/ AnalyzeIPs
    \/ GroupUserRequests
    \/ DetectSuspiciousBehavior
    \/ ReturnAnalysis

InitIP == ParseInit(LinesIP) /\ PageIdle

InitUser == ParseInit(LinesUser) /\ PageIdle

InitVerdict == ParseInit(LinesVerdict) /\ PageIdle

\* detectSuspiciousBehavior entered with one group of valid timestamps.
InitDetect ==
    /\ \E n \in 1..MaxRequests : \E secs \in [1..n -> DetectSeconds] :
          LET lines == [k \in 1..n |-> Line(GET, Alice, At(secs[k]))]
          IN /\ content = lines
             /\ blocks = <<lines>>
             /\ userRequests = groupUserRequests(<<lines>>)
    /\ pc = "grouped"
    /\ ipAnalysis = <<>>
    /\ userAnalysis = <<>>
    /\ analysis = <<>>
    /\ PageIdle

NextDetect == DetectSuspiciousBehavior \/ ReturnAnalysis

SpecIP == InitIP /\ [][NextParse]_vars

SpecUser == InitUser /\ [][NextParse]_vars

SpecVerdict == InitVerdict /\ [][NextParse]_vars

SpecDetect == InitDetect /\ [][NextDetect]_vars

\* ------------------------------------------------------------------- page
SizeUnits == <<"Bytes", "KB", "MB", "GB">>

\* Math.floor(Math.log(bytes) / Math.log(1024)), bytes > 0
RECURSIVE Log1024(_)
Log1024(bytes) == IF bytes < 1024 THEN 0 ELSE 1 + Log1024(bytes \div 1024)

RECURSIVE Pow1024(_)
Pow1024(i) == IF i = 0 THEN 1 ELSE 1024 * Pow1024(i - 1)

\* The number shown, in hundredths (toFixed(2), a half rounded up), and the
\* unit; sizes[i] is undefined from a terabyte on.
formatFileSize(bytes) ==
    IF bytes = 0 THEN <<0, "Bytes">>
    ELSE LET i == Log1024(bytes)
             k == Pow1024(i)
         IN <<(200 * bytes + k) \div (2 * k),
              IF i < Len(SizeUnits) THEN SizeUnits[i + 1] ELSE "undefined">>

\* The 'change' event of the file input: f is event.target.files[0], NoFile
\* when the selection was emptied.
HandleFileSelect(f) ==
    /\ f # fileInput
    /\ fileInput' = f
    /\ IF f # NoFile
       THEN /\ fileInfo' = <<SampleFiles[f].name, formatFileSize(SampleFiles[f].size)>>
            /\ analyzeBtnDisabled' = FALSE
       ELSE /\ fileInfo' = <<>>
            /\ analyzeBtnDisabled' = TRUE
    /\ UNCHANGED <<loadingDiv, resultsDiv, verdictDiv, statsDiv, ipList, userList>>
    /\ UNCHANGED <<parseVars, calls>>

ErrorMessage == "Error analyzing log file. Please check the file format."

\* displayIPAnalysis: the list items written to ipList.
RenderIPs(ipAnalysis_) ==
    IF Len(ipAnalysis_) = 0
    THEN <<"No IP addresses found in log">>
    ELSE [k \in 1..Len(ipAnalysis_) |->
             [ip |-> ipAnalysis_[k].ip, isInternal |-> ipAnalysis_[k].isInternal]]

\* displayUserAnalysis: the list items written to userList.
RenderUsers(userAnalysis_) ==
    IF Len(userAnalysis_) = 0
    THEN <<"No user activity detected">>
    ELSE [k \in 1..Len(userAnalysis_) |->
             [userId |-> userAnalysis_[k].userId,
              reason |-> userAnalysis_[k].reason,
              requestCount |-> userAnalysis_[k].requestCount,
              isSuspicious |-> userAnalysis_[k].isSuspicious]]

\* displayVerdict
RenderVerdict(isBreach) ==
    IF isBreach
    THEN [className |-> "verdict breach", html |-> "Breach Detected!"]
    ELSE [className |-> "verdict safe", html |-> "System Safe"]

\* analyzeLog up to its await: a click on the analyze button.  Invocations
\* are numbered in the order they start.
AnalyzeLog(i) ==
    /\ ~analyzeBtnDisabled
    /\ calls[i].pc = "idle"
    /\ \A j \in CallIds : j < i => calls[j].pc # "idle"
    /\ IF fileInput = NoFile
       THEN /\ calls' = [calls EXCEPT ![i].pc = "returned"]
            /\ UNCHANGED <<loadingDiv, resultsDiv>>
       ELSE \* showLoading, then readFile(file)
            /\ resultsDiv' = "none"
            /\ loadingDiv' = "block"
            /\ calls' = [calls EXCEPT ![i].pc = "reading",
                                      ![i].file = fileInput,
                                      ![i].wrote = @ \cup {"resultsDiv", "loadingDiv"}]
    /\ UNCHANGED <<fileInput, fileInfo, analyzeBtnDisabled,
                   verdictDiv, statsDiv, ipList, userList>>
    /\ UNCHANGED parseVars

\* The catch block of invocation i: console.error, then showError.
ShowError(i, after, parsed) ==
    /\ loadingDiv' = "none"
    /\ resultsDiv' = "block"
    /\ verdictDiv' = [verdictDiv EXCEPT !.html = ErrorMessage]
    /\ calls' = [calls EXCEPT ![i].pc = after,
                              ![i].parseRuns = @ + parsed,
                              ![i].errorsShown = @ + 1,
                              ![i].wrote = @ \cup {"loadingDiv", "resultsDiv", "verdictDiv"}]
    /\ UNCHANGED <<statsDiv, ipList, userList>>

\* displayResults(an) of invocation i.
DisplayResults(i, an) ==
    /\ loadingDiv' = "none"
    /\ resultsDiv' = "block"
    /\ statsDiv' = <<an.stats>>
    /\ ipList' = RenderIPs(an.ipAnalysis)
    /\ userList' = RenderUsers(an.userAnalysis)
    /\ verdictDiv' = RenderVerdict(an.isBreach)
    /\ calls' = [calls EXCEPT ![i].pc = "displayed",
                              ![i].passed = <<an>>,
                              ![i].parseRuns = @ + 1,
                              ![i].displayRuns = @ + 1,
                              ![i].wrote = @ \cup {"loadingDiv", "resultsDiv", "statsDiv",
                                                   "ipList", "userList", "verdictDiv"}]

\* The rest of the try block once the read delivered text: parseLogContent,
\* then displayResults, or the catch block when parseLogContent threw.
Continue(i, text) ==
    /\ calls[i].pc = "reading"
    /\ \E out \in ParseOutcomes(text) :
          IF out.threw THEN ShowError(i, "threw", 1) ELSE DisplayResults(i, out.analysis)
    /\ UNCHANGED <<fileInput, fileInfo, analyzeBtnDisabled>>
    /\ UNCHANGED parseVars

\* The text of whatever file is selected when the read completes.
ReadResolveSelected(i) ==
    Continue(i, IF fileInput = NoFile THEN <<>> ELSE SampleFiles[fileInput].content)

\* reader.onload of invocation i: the promise resolves with the text of the
\* file the invocation took when it started.
ReadResolve(i) == Continue(i, SampleFiles[calls[i].file].content)

\* An error path that also empties the statistics panel.
ReadRejectClearing(i) ==
    /\ calls[i].pc = "reading"
    /\ loadingDiv' = "none"
    /\ resultsDiv' = "block"
    /\ verdictDiv' = [verdictDiv EXCEPT !.html = ErrorMessage]
    /\ statsDiv' = <<>>
    /\ calls' = [calls EXCEPT ![i].pc = "rejected",
                              ![i].errorsShown = @ + 1,
                              ![i].wrote = @ \cup {"loadingDiv", "resultsDiv",
                                                   "verdictDiv", "statsDiv"}]
    /\ UNCHANGED <<ipList, userList>>
    /\ UNCHANGED <<fileInput, fileInfo, analyzeBtnDisabled>>
    /\ UNCHANGED parseVars

\* reader.onerror of invocation i: the promise rejects.
ReadReject(i) ==
    /\ calls[i].pc = "reading"
    /\ ShowError(i, "rejected", 0)
    /\ UNCHANGED <<fileInput, fileInfo, analyzeBtnDisabled>>
    /\ UNCHANGED parseVars

Init == ParseIdle /\ PageInit

Next ==
    \/ \E f \in 0..Len(SampleFiles) : HandleFileSelect(f)
    \/ \E i \in CallIds : AnalyzeLog(i)
    \/ \E i \in CallIds : ReadResolve(i)
    \/ \E i \in CallIds : ReadReject(i)

Spec == Init /\ [][Next]_vars

\* ================================================================ claims
Returned == pc = "done"

IPsAnalysed == pc \in {"ips", "grouped", "threw", "users", "done"}

UsersAnalysed == pc \in {"users", "done"}

\* C1: the isBreach value parseLogContent returns is true exactly when some
\* returned IP record is external or some returned user record is
\* suspicious; so it is true whenever stats.externalIPs > 0, and false when
\* every IP record is internal and no user record is suspicious.
C1_BreachIffExternalOrSuspicious ==
    Returned =>
        LET a == analysis[1]
            anyExternal == \E k \in DOMAIN a.ipAnalysis : a.ipAnalysis[k].isInternal = FALSE
            anySuspicious == \E k \in DOMAIN a.userAnalysis : a.userAnalysis[k].isSuspicious = TRUE
        IN /\ a.isBreach <=> (anyExternal \/ anySuspicious)
           /\ a.stats.externalIPs > 0 => a.isBreach
           /\ (~anyExternal /\ ~anySuspicious) => ~a.isBreach
           /\ a.stats.externalIPs > 0 <=> anyExternal

\* A returned breach verdict that rests on a suspicious user alone: an
\* internal address is recorded and no external one.
C1_Witness ==
    /\ Returned
    /\ analysis[1].isBreach
    /\ analysis[1].stats.internalIPs > 0
    /\ analysis[1].stats.externalIPs = 0
    /\ analysis[1].stats.suspiciousUsers > 0

\* The blocks whose first line starts with the address.
BlocksOf(ip) == {b \in DOMAIN blocks : ipPattern(blocks[b][1]) = ip}

FirstBlockOf(ip) == CHOOSE b \in BlocksOf(ip) : \A c \in BlocksOf(ip) : b <= c

\* C2: analyzeIPs returns no two records with the same address; every
\* leading address has exactly one record, made from the first block that
\* starts with it, and the records are in order of first appearance.
C2_OneRecordPerAddress ==
    IPsAnalysed =>
        /\ \A k, l \in DOMAIN ipAnalysis : ipAnalysis[k].ip = ipAnalysis[l].ip => k = l
        /\ {ipAnalysis[k].ip : k \in DOMAIN ipAnalysis}
             = {ipPattern(blocks[b][1]) : b \in DOMAIN blocks} \ {NoText}
        /\ \A k \in DOMAIN ipAnalysis :
              ipAnalysis[k].requests = Tail(blocks[FirstBlockOf(ipAnalysis[k].ip)])
        /\ \A k, l \in DOMAIN ipAnalysis :
              k < l => FirstBlockOf(ipAnalysis[k].ip) < FirstBlockOf(ipAnalysis[l].ip)

\* Two blocks start with the same address and differ in their request
\* lines; one record came out.
C2_Witness ==
    /\ IPsAnalysed
    /\ Len(blocks) >= 2
    /\ ipPattern(blocks[1][1]) # NoText
    /\ ipPattern(blocks[1][1]) = ipPattern(blocks[2][1])
    /\ Tail(blocks[1]) # Tail(blocks[2])
    /\ Len(ipAnalysis) = 1

\* C3: a record is internal exactly when its address begins with "10.";
\* 172.16.x.x and 192.168.x.x addresses are external.
C3_InternalIffTenDot ==
    IPsAnalysed =>
        \A k \in DOMAIN ipAnalysis :
            LET ip == ipAnalysis[k].ip
            IN /\ ipAnalysis[k].isInternal
                    <=> (Len(ip) >= 3 /\ ip[1] = "1" /\ ip[2] = "0" /\ ip[3] = ".")
               /\ ip \in {IP_172_16_0_1, IP_192_168_1_1, IP_100_1_1_1}
                    => ~ipAnalysis[k].isInternal

\* A 10. address recorded internal beside a 192.168 address recorded
\* external.
C3_Witness ==
    /\ IPsAnalysed
    /\ \E k, l \in DOMAIN ipAnalysis :
          /\ ipAnalysis[k].ip = IP_10_0_0_1 /\ ipAnalysis[k].isInternal
          /\ ipAnalysis[l].ip = IP_192_168_1_1 /\ ~ipAnalysis[l].isInternal

\* The lines on which both a user_id token and a timestamp text are found.
MatchedLines == SelectSeq(content, LAMBDA l : l.uid # NoText /\ l.ts # NoText)

\* The identifiers of a sequence of lines, each once, in order of first
\* appearance.
RECURSIVE FirstAppearance(_)
FirstAppearance(lines) ==
    IF lines = <<>> THEN <<>>
    ELSE LET before == FirstAppearance(SubSeq(lines, 1, Len(lines) - 1))
             id == lines[Len(lines)].uid
         IN IF \E k \in DOMAIN before : before[k] = id THEN before
            ELSE Append(before, id)

\* C4: the user records are one per identifier, in the order in which the
\* identifiers first appear in the scan of the lines.
C4_FirstAppearanceOrder ==
    UsersAnalysed =>
        [k \in DOMAIN userAnalysis |-> userAnalysis[k].userId] = FirstAppearance(MatchedLines)

\* C5 as stated: a group of exactly 2 requests is never suspicious and its
\* reason is "Normal activity".
C5_TwoRequestsNormalActivity ==
    UsersAnalysed =>
        \A k \in DOMAIN userAnalysis :
            userAnalysis[k].requestCount = 2 =>
                /\ ~userAnalysis[k].isSuspicious
                /\ userAnalysis[k].reason = NormalActivity

\* C5, amended: a group of exactly 2 requests is never suspicious, whatever
\* the interval, and its reason is "Insufficient data".
C5_TwoRequestsInsufficientData ==
    UsersAnalysed =>
        \A k \in DOMAIN userAnalysis :
            userAnalysis[k].requestCount = 2 =>
                /\ ~userAnalysis[k].isSuspicious
                /\ userAnalysis[k].reason = InsufficientData

\* A record for two requests five seconds apart.
C5_Witness ==
    /\ UsersAnalysed
    /\ \E k \in DOMAIN userAnalysis :
          /\ userAnalysis[k].requestCount = 2
          /\ userAnalysis[k].userId = Alice
    /\ MatchedLines = <<Line(GET, Alice, At(0)), Line(GET, Alice, At(5))>>

\* C6: a group of exactly 3 requests is never suspicious and its reason is
\* "Insufficient data", whatever the timestamps.
C6_ThreeRequestsInsufficientData ==
    UsersAnalysed =>
        \A k \in DOMAIN userAnalysis :
            userAnalysis[k].requestCount = 3 =>
                /\ ~userAnalysis[k].isSuspicious
                /\ userAnalysis[k].reason = InsufficientData

\* A record for three requests at the same second: two equal intervals.
C6_Witness ==
    /\ UsersAnalysed
    /\ \E k \in DOMAIN userAnalysis : userAnalysis[k].requestCount = 3
    /\ MatchedLines = [k \in 1..3 |-> Line(GET, Alice, At(5))]

\* The seconds of the requests of the content, ascending.
SortedSeconds == SortSeq([k \in DOMAIN content |-> content[k].ts[3]], <)

\* The regularity test on ascending seconds s: more than 0.7 of the gaps lie
\* within 2000 ms of the mean gap, and the mean gap is below 15000 ms.
Regular(s) ==
    LET n == Len(s) - 1
        total == 1000 * (s[Len(s)] - s[1])
        near == {i \in 1..n : LET d == n * 1000 * (s[i + 1] - s[i]) - total
                              IN -2000 * n < d /\ d < 2000 * n}
    IN 10 * Cardinality(near) > 7 * n /\ total < 15000 * n

\* C7: a group of at least 4 requests with valid timestamps is suspicious
\* exactly when, over the intervals of the requests sorted by timestamp,
\* the share within 2000 ms of the mean exceeds 0.7 and the mean is below
\* 15000 ms; requests at 0, 5, 10, 15 s are suspicious with a reason that
\* names 5 s, requests at 0, 1, 40, 41 s are not.
C7_SuspiciousIffRegular ==
    (UsersAnalysed /\ Len(content) >= 4) =>
        /\ Len(userAnalysis) = 1
        /\ userAnalysis[1].requestCount = Len(content)
        /\ userAnalysis[1].isSuspicious <=> Regular(SortedSeconds)
        /\ SortedSeconds = <<0, 5, 10, 15>> =>
              /\ userAnalysis[1].isSuspicious
              /\ userAnalysis[1].reason = <<"Repeated API hits every ", 5, "s">>
        /\ SortedSeconds = <<0, 1, 40, 41>> => ~userAnalysis[1].isSuspicious

\* Requests logged out of order at 15, 0, 10 and 5 s and found suspicious.
C7_Witness ==
    /\ UsersAnalysed
    /\ [k \in DOMAIN content |-> content[k].ts[3]] = <<15, 0, 10, 5>>
    /\ userAnalysis[1].isSuspicious

\* C8: requestCount is the number of lines that carry the identifier and a
\* timestamp that yields a point in time; a line whose timestamp text
\* yields none is counted for no user.
C8_CountsLinesWithPointInTime ==
    UsersAnalysed =>
        \A k \in DOMAIN userAnalysis :
            userAnalysis[k].requestCount =
                Cardinality({j \in DOMAIN content :
                                /\ content[j].uid = userAnalysis[k].userId
                                /\ content[j].ts # NoText
                                /\ ~DateOf(content[j].ts).nan})

\* C9: an invocation whose read was rejected has shown one error, has run
\* neither parseLogContent nor displayResults, and has written none of the
\* statistics, the IP list and the user list.
C9_RejectedReadShowsOneError ==
    \A i \in CallIds :
        calls[i].pc = "rejected" =>
            /\ calls[i].errorsShown = 1
            /\ calls[i].parseRuns = 0
            /\ calls[i].displayRuns = 0
            /\ calls[i].passed = <<>>
            /\ calls[i].wrote \cap {"statsDiv", "ipList", "userList"} = {}

\* A read rejected after an earlier invocation displayed its results, which
\* the page still holds.
C9_Witness ==
    /\ calls[1].pc = "displayed"
    /\ calls[2].pc = "rejected"
    /\ statsDiv = <<calls[1].passed[1].stats>>
    /\ verdictDiv.html = ErrorMessage

\* C10: whatever the interleaving, what an invocation passes to
\* displayResults is parseLogContent of the text of the file that
\* invocation took, and the other invocations leave it as it is.
C10_ResultOfOwnContent ==
    \A i \in CallIds :
        /\ calls[i].pc = "displayed" =>
              /\ calls[i].file # NoFile
              /\ [threw |-> FALSE, analysis |-> calls[i].passed[1]]
                    \in ParseOutcomes(SampleFiles[calls[i].file].content)
        /\ calls[i].pc \in {"idle", "returned", "reading", "threw", "rejected"} =>
              calls[i].passed = <<>>

\* The second invocation displayed its results while the first, started
\* earlier on another file, is still reading.
C10_Witness ==
    /\ calls[1].pc = "reading"
    /\ calls[2].pc = "displayed"
    /\ calls[1].file # calls[2].file
    /\ fileInput # calls[2].file

=============================================================================
